---- MODULE Spec2Model ----
(***************************************************************************)
(* QuicMesh (internal/quicmesh.go): Start, Stop, findPortBinding,          *)
(* setupTunnel with its server task and per-peer dial tasks, and the       *)
(* forwarding loop of enableTrafficForwarding, as one state machine.       *)
(*                                                                         *)
(* Every goroutine is a process with a position (startPc, serverPc, pc[p], *)
(* fwdPc).  logger.Fatal / logger.Fatalf end the process: alive = FALSE,   *)
(* after which no task takes a step.                                       *)
(***************************************************************************)
EXTENDS Integers, Sequences, FiniteSets, TLC

(* ------------------------------ bounds --------------------------------- *)

\* inbound sessions the server accept loop takes in one run
MaxAccepts == 1

(* ------------------------- program constants --------------------------- *)

\* const retries = 10
retries == 10

\* packet := make([]byte, 1500)
BufSize == 1500

\* dstIP := net.IP(packet[16:20])
DstLo == 16
DstHi == 20

(* ------------------------------ strings -------------------------------- *)

DigitChars == <<"0", "1", "2", "3", "4", "5", "6", "7", "8", "9">>

RECURSIVE DecStr(_)
\* decimal rendering of a byte, as net.IP.String prints each octet
DecStr(k) ==
    IF k < 10 THEN DigitChars[k + 1]
    ELSE DecStr(k \div 10) \o DigitChars[(k % 10) + 1]

\* net.IP(b).String() for a 4-byte IP: dotted decimal
IPString(b) ==
    DecStr(b[1]) \o "." \o DecStr(b[2]) \o "." \o DecStr(b[3]) \o "." \o DecStr(b[4])

RECURSIVE LastColon(_, _)
\* index of the last ":" among the first i characters of e, 0 when there is none
LastColon(e, i) ==
    IF i = 0 THEN 0
    ELSE IF e[i] = ":" THEN i
    ELSE LastColon(e, i - 1)

\* net.SplitHostPort(endpoint) for "host:port" endpoints (no brackets):
\* the text before the last colon is the host; no colon is an error
SplitHostPort(e) ==
    LET i == LastColon(e, Len(e))
    IN  IF i = 0
        THEN [host |-> << >>, port |-> << >>, err |-> TRUE]
        ELSE [host |-> SubSeq(e, 1, i - 1), port |-> SubSeq(e, i + 1, Len(e)), err |-> FALSE]

(* ------------------------- the peer directory -------------------------- *)

Peers == {"P1", "P2"}

Ep2 == <<"1", "0", ".", "0", ".", "0", ".", "2", ":", "5", "0", "0", "0">>
Ep2b == <<"1", "0", ".", "0", ".", "0", ".", "2", ":", "5", "0", "0", "1">>
Ep3 == <<"1", "0", ".", "0", ".", "0", ".", "3", ":", "5", "0", "0", "0">>

\* the peers of the loaded quic config: endpoint "host:port" and allowedIPs
QuicConfs ==
    [ distinct   |-> [P1 |-> [endpoint |-> Ep2,  allowedIPs |-> <<"10.1.0.2">>],
                      P2 |-> [endpoint |-> Ep3,  allowedIPs |-> <<"10.1.0.3">>]],
      sharedHost |-> [P1 |-> [endpoint |-> Ep2,  allowedIPs |-> <<"10.1.0.2">>],
                      P2 |-> [endpoint |-> Ep2b, allowedIPs |-> <<"10.1.0.3">>]],
      sharedKey  |-> [P1 |-> [endpoint |-> Ep2,  allowedIPs |-> <<"10.1.0.2">>],
                      P2 |-> [endpoint |-> Ep3,  allowedIPs |-> <<"10.1.0.2">>]] ]

(* --------------------------- device packets ---------------------------- *)

\* length of an IPv4 address: packet[16:20]
AddrLen == DstHi - DstLo

\* the IPv4 source address precedes the destination address: packet[12:16]
SrcLo == DstLo - AddrLen

\* an IPv4 packet of len bytes: source address at bytes 12..15, destination
\* address at bytes 16..19 (as far as len reaches), every other byte fill
MkPacket(len, src, dst, fill) ==
    [i \in 1..len |->
        IF i > DstLo /\ i <= DstHi THEN dst[i - DstLo]
        ELSE IF i > SrcLo /\ i <= DstLo THEN src[i - SrcLo]
        ELSE fill]

\* what a Read of the virtual device can return: a packet from 10.1.0.2 for
\* 10.1.0.3, and a runt shorter than an IPv4 header
DevicePackets ==
    { MkPacket(22, <<10, 1, 0, 2>>, <<10, 1, 0, 3>>, 9),
      MkPacket(8,  <<0, 0, 0, 0>>,  <<0, 0, 0, 0>>, 5) }

(* ------------------------------- state --------------------------------- *)

VARIABLES
    conf,           \* which QuicConfs entry the config file holds
    disableClient,  \* qn.disableClient
    disableServer,  \* qn.disableServer
    alive,          \* FALSE once the process has exited (Fatal, Fatalf, runtime throw)
    startPc,        \* position of Start
    localIf,        \* qn.localIf is set (the TUN device is up)
    nat,            \* what findPortBinding returned to Start, which drops it: kept
                    \* until setupTunnel has decided about the server task
    wgCount,        \* counter of the WaitGroup passed to Start
    serverPc,       \* position of the server task
    accepted,       \* sessions accepted by the server so far
    conns,          \* every quic.Connection in existence
    connections,    \* qn.connections: host -> Connection
    pc,             \* position of each peer's dial task
    attempt,        \* RetryOperation's attempt number, per peer
    clientConn,     \* the Connection each peer's Client wraps
    clients,        \* qn.clients: allowedIPs[0] -> Client (named by its peer)
    fwdPc,          \* position of the forwarding loop
    packet,         \* the forwarding loop's buffer: the bytes written so far,
                    \* the rest of its BufSize bytes still being zero
    n,              \* n of the last Read
    lastRead,       \* history: the packet the last Read returned
    sent,           \* history: the SendBytes calls made since the last Read
    sendErr,        \* history: the last of them returned an error
    handlers,       \* the Connections whose inbound packets a handler writes to the device
    dials,          \* history: c.Dial() calls made, per peer
    fails,          \* history: c.Dial() calls that returned an error, per peer
    stopped         \* history: Stop has been called and has returned

vars ==
    << conf, disableClient, disableServer, alive, startPc, localIf, nat,
       wgCount, serverPc, accepted, conns, connections, pc, attempt,
       clientConn, clients, fwdPc, packet, n, lastRead, sent, sendErr,
       handlers, dials, fails, stopped >>

NoConn == [host |-> << >>, origin |-> "none", owner |-> "none"]

EmptyMap == [x \in {} |-> x]

\* m[k] = v, adding k
Put(m, k, v) == [x \in DOMAIN m \cup {k} |-> IF x = k THEN v ELSE m[x]]

peers == QuicConfs[conf]

\* peer.allowedIPs[0]
Key(p) == peers[p].allowedIPs[1]

\* host, _, err := net.SplitHostPort(peer.endpoint)
Host(p) == SplitHostPort(peers[p].endpoint).host

\* NewQuicMesh: empty maps, flags from the command line
Init ==
    /\ conf \in DOMAIN QuicConfs
    /\ disableClient \in BOOLEAN
    /\ disableServer \in BOOLEAN
    /\ alive = TRUE
    /\ startPc = "readConf"
    /\ localIf = FALSE
    /\ nat = "none"
    /\ wgCount = 0
    /\ serverPc = "none"
    /\ accepted = 0
    /\ conns = {}
    /\ connections = EmptyMap
    /\ pc = [p \in Peers |-> "idle"]
    /\ attempt = [p \in Peers |-> 0]
    /\ clientConn = [p \in Peers |-> NoConn]
    /\ clients = EmptyMap
    /\ fwdPc = "none"
    /\ packet = << >>
    /\ n = 0
    /\ lastRead = << >>
    /\ sent = << >>
    /\ sendErr = FALSE
    /\ handlers = {}
    /\ dials = [p \in Peers |-> 0]
    /\ fails = [p \in Peers |-> 0]
    /\ stopped = FALSE

(* ------------------------------- Start --------------------------------- *)

\* what Start leaves alone while it runs its sequential part
StartFrame ==
    UNCHANGED << conf, disableClient, disableServer, accepted,
                 conns, connections, attempt, clientConn, clients, packet, n, lastRead,
                 sent, sendErr, handlers, dials, fails, stopped >>

\* err := readQuicConf(qn.qc, qn.configFile), err == nil
ReadConfOk ==
    /\ alive /\ startPc = "readConf"
    /\ startPc' = "createTun"
    /\ UNCHANGED << alive, localIf, nat, wgCount, serverPc, pc, fwdPc >>
    /\ StartFrame

\* readQuicConf fails: Start returns the error
ReadConfFail ==
    /\ alive /\ startPc = "readConf"
    /\ startPc' = "failed"
    /\ UNCHANGED << alive, localIf, nat, wgCount, serverPc, pc, fwdPc >>
    /\ StartFrame

\* createTunIface returns nil: water.New and both ip commands worked, qn.localIf set
CreateTunOk ==
    /\ alive /\ startPc = "createTun"
    /\ localIf' = TRUE
    /\ startPc' = "findPort"
    /\ UNCHANGED << alive, nat, wgCount, serverPc, pc, fwdPc >>
    /\ StartFrame

\* CreateTunFail gone wrong: the error of createTunIface is dropped and Start
\* goes on without a device
CreateTunFailIgnored ==
    /\ alive /\ startPc = "createTun"
    /\ startPc' = "findPort"
    /\ UNCHANGED << alive, localIf, nat, wgCount, serverPc, pc, fwdPc >>
    /\ StartFrame

\* createTunIface returns an error (water.New, ip addr add or ip link set failed):
\* Start returns it; qn.localIf is assigned only on the success path
CreateTunFail ==
    /\ alive /\ startPc = "createTun"
    /\ startPc' = "failed"
    /\ UNCHANGED << alive, localIf, nat, wgCount, serverPc, pc, fwdPc >>
    /\ StartFrame

\* if !qn.disableServer { qn.findPortBinding() } with the server disabled
FindPortSkip ==
    /\ alive /\ startPc = "findPort"
    /\ disableServer
    /\ startPc' = "setupTunnel"
    /\ UNCHANGED << alive, localIf, nat, wgCount, serverPc, pc, fwdPc >>
    /\ StartFrame

\* findPortBinding: IsSymmetricNAT reports true; it returns an error that
\* Start drops, and qn.symmetricNAT is never assigned
FindPortSymmetric ==
    /\ alive /\ startPc = "findPort"
    /\ ~disableServer
    /\ nat' = "symmetric"
    /\ startPc' = "setupTunnel"
    /\ UNCHANGED << alive, localIf, wgCount, serverPc, pc, fwdPc >>
    /\ StartFrame

\* findPortBinding: IsSymmetricNAT reports false, or fails (the error is only
\* logged); GetPortBinding then returns a binding
FindPortBound ==
    /\ alive /\ startPc = "findPort"
    /\ ~disableServer
    /\ nat' = "bound"
    /\ startPc' = "setupTunnel"
    /\ UNCHANGED << alive, localIf, wgCount, serverPc, pc, fwdPc >>
    /\ StartFrame

\* findPortBinding: GetPortBinding fails: qn.logger.Fatalf ends the process
FindPortStunFail ==
    /\ alive /\ startPc = "findPort"
    /\ ~disableServer
    /\ nat' = "stunFailed"
    /\ alive' = FALSE
    /\ UNCHANGED << startPc, localIf, wgCount, serverPc, pc, fwdPc >>
    /\ StartFrame

\* setupTunnel, !disableServer: wg.Add(1); go func() { server }; then wg.Wait().
\* Neither Start nor setupTunnel looks at what findPortBinding returned
SetupServer ==
    /\ alive /\ startPc = "setupTunnel"
    /\ ~disableServer
    /\ wgCount' = wgCount + 1
    /\ serverPc' = "start"
    /\ startPc' = "wait"
    /\ nat' = "none"
    /\ UNCHANGED << alive, localIf, pc, fwdPc >>
    /\ StartFrame

\* setupTunnel, disableServer: no server task, no wait
SetupNoServer ==
    /\ alive /\ startPc = "setupTunnel"
    /\ disableServer
    /\ startPc' = "clients"
    /\ UNCHANGED << alive, localIf, nat, wgCount, serverPc, pc, fwdPc >>
    /\ StartFrame

\* wg.Wait() returns once the counter is zero
WgWait ==
    /\ alive /\ startPc = "wait"
    /\ wgCount = 0
    /\ startPc' = "clients"
    /\ UNCHANGED << alive, localIf, nat, wgCount, serverPc, pc, fwdPc >>
    /\ StartFrame

\* if !disableClient { for _, peer := range qn.qc.peers { go func(peer Peer) {...} } }
StartClients ==
    /\ alive /\ startPc = "clients"
    /\ pc' = IF disableClient THEN pc ELSE [p \in Peers |-> "check"]
    /\ startPc' = "forwarding"
    /\ UNCHANGED << alive, localIf, nat, wgCount, serverPc, fwdPc >>
    /\ StartFrame

\* qn.enableTrafficForwarding(): go func() { for { ... } }; Start returns nil
EnableTrafficForwarding ==
    /\ alive /\ startPc = "forwarding"
    /\ fwdPc' = "read"
    /\ startPc' = "returned"
    /\ UNCHANGED << alive, localIf, nat, wgCount, serverPc, pc >>
    /\ StartFrame

\* Stop(): qn.logger.Info("QuicMesh Stop") and nothing else.  The caller
\* stops the mesh it has started: Stop follows the return of Start
Stop ==
    /\ alive /\ startPc = "returned"
    /\ ~stopped
    /\ stopped' = TRUE
    /\ UNCHANGED << conf, disableClient, disableServer, alive, startPc, localIf,
                    nat, wgCount, serverPc, accepted, conns, connections, pc,
                    attempt, clientConn, clients, fwdPc, packet, n, lastRead,
                    sent, sendErr, handlers, dials, fails >>

(* ---------------------------- server task ------------------------------ *)
(* The server task of setupTunnel runs s.StartServer(ctx, qn, wg), which     *)
(* serves until it fails.  quicmesh.go never calls wg.Done(): whether        *)
(* StartServer does so once the listener is up is not fixed there, so both   *)
(* behaviours are steps of the model.  Sessions it accepts are recorded in   *)
(* qn.connections under their remote host, for the dial tasks to reuse.      *)

\* what the server task leaves alone
ServerFrame ==
    UNCHANGED << conf, disableClient, disableServer, startPc, localIf, nat,
                 pc, attempt, clientConn, clients, fwdPc, packet, n, lastRead,
                 sent, sendErr, dials, fails, stopped >>

\* s.StartServer(ctx, qn, wg): the listener is bound and accepting, and
\* StartServer calls wg.Done() at that point
ServerListenOk ==
    /\ alive /\ serverPc = "start"
    /\ serverPc' = "accepting"
    /\ wgCount' = wgCount - 1
    /\ UNCHANGED << alive, accepted, conns, connections, handlers >>
    /\ ServerFrame

\* the listener is bound and accepting, and StartServer leaves the WaitGroup
\* alone until it returns
ServerListenNoSignal ==
    /\ alive /\ serverPc = "start"
    /\ serverPc' = "accepting"
    /\ UNCHANGED << alive, wgCount, accepted, conns, connections, handlers >>
    /\ ServerFrame

\* s.StartServer returns an error (the listener could not be bound), and
\* qn.logger.Fatal(s.StartServer(ctx, qn, wg)) ends the process
ServerListenFail ==
    /\ alive /\ serverPc = "start"
    /\ serverPc' = "returned"
    /\ alive' = FALSE
    /\ UNCHANGED << wgCount, accepted, conns, connections, handlers >>
    /\ ServerFrame

\* the hosts inbound sessions come from: the configured peers' hosts
RemoteHosts == {Host(p) : p \in Peers}

\* name of the k-th accepted session
AcceptName(k) == "A" \o DecStr(k)

\* the Connection of the k-th session accepted, from host h
Accepted(h, k) == [host |-> h, origin |-> "accept", owner |-> AcceptName(k)]

\* the accept loop takes an inbound session from host h and records it under
\* its remote host in qn.connections; the handler given to s.SetHandler
\* serves every session the server accepts
ServerAccept(h) ==
    /\ alive /\ serverPc = "accepting"
    /\ accepted < MaxAccepts
    /\ accepted' = accepted + 1
    /\ conns' = conns \cup {Accepted(h, accepted + 1)}
    /\ connections' = Put(connections, h, Accepted(h, accepted + 1))
    /\ handlers' = handlers \cup {Accepted(h, accepted + 1)}
    /\ UNCHANGED << alive, serverPc, wgCount >>
    /\ ServerFrame

(* ----------------------------- dial tasks ------------------------------ *)

\* what a dial task leaves alone
DialFrame ==
    UNCHANGED << conf, disableClient, disableServer, startPc, localIf, nat,
                 wgCount, serverPc, accepted, connections, fwdPc,
                 packet, n, lastRead, sent, sendErr, stopped >>

\* _, ok := qn.clients[peer.allowedIPs[0]]
HasClient(p) == Key(p) \in DOMAIN clients

\* conn, ok := qn.connections[host]
HasConnection(p) == Host(p) \in DOMAIN connections

\* the task finds a Client under its key and returns
CheckClientsFound(p) ==
    /\ alive /\ pc[p] = "check"
    /\ HasClient(p)
    /\ pc' = [pc EXCEPT ![p] = "skipped"]
    /\ UNCHANGED << alive, conns, attempt, clientConn, clients, handlers, dials, fails >>
    /\ DialFrame

\* no Client under the key: NewClient, SplitHostPort (Fatalf when it fails),
\* and RetryOperation starts with its first attempt
CheckClientsMissing(p) ==
    /\ alive /\ pc[p] = "check"
    /\ ~HasClient(p)
    /\ IF SplitHostPort(peers[p].endpoint).err
       THEN /\ alive' = FALSE
            /\ UNCHANGED << pc, attempt >>
       ELSE /\ pc' = [pc EXCEPT ![p] = "retry"]
            /\ attempt' = [attempt EXCEPT ![p] = 1]
            /\ UNCHANGED alive
    /\ UNCHANGED << conns, clientConn, clients, handlers, dials, fails >>
    /\ DialFrame

\* the retried operation finds qn.connections[host]: c.SetConnection(conn), return nil
RetryReuse(p) ==
    /\ alive /\ pc[p] = "retry"
    /\ HasConnection(p)
    /\ clientConn' = [clientConn EXCEPT ![p] = connections[Host(p)]]
    /\ pc' = [pc EXCEPT ![p] = "register"]
    /\ UNCHANGED << alive, conns, attempt, clients, handlers, dials, fails >>
    /\ DialFrame

\* the Connection c.Dial() establishes for peer p
Dialed(p) == [host |-> Host(p), origin |-> "dial", owner |-> p]

\* DialOk gone wrong: the retried operation does not report its success, so
\* the retry loop waits and dials again until its attempts are used up
DialOkNotFinal(p) ==
    /\ alive /\ pc[p] = "retry"
    /\ ~HasConnection(p)
    /\ conns' = conns \cup {Dialed(p)}
    /\ clientConn' = [clientConn EXCEPT ![p] = Dialed(p)]
    /\ handlers' = handlers \cup {Dialed(p)}
    /\ dials' = [dials EXCEPT ![p] = dials[p] + 1]
    /\ pc' = [pc EXCEPT ![p] = IF attempt[p] < retries THEN "backoff" ELSE "register"]
    /\ UNCHANGED << alive, attempt, clients, fails >>
    /\ DialFrame

\* DialOk gone wrong: the operation returns after a successful Dial without
\* calling c.AttachHandler
DialOkNoHandler(p) ==
    /\ alive /\ pc[p] = "retry"
    /\ ~HasConnection(p)
    /\ conns' = conns \cup {Dialed(p)}
    /\ clientConn' = [clientConn EXCEPT ![p] = Dialed(p)]
    /\ dials' = [dials EXCEPT ![p] = dials[p] + 1]
    /\ pc' = [pc EXCEPT ![p] = "register"]
    /\ UNCHANGED << alive, attempt, clients, fails, handlers >>
    /\ DialFrame

\* no connection for the host; c.Dial() succeeds; c.AttachHandler(...); return nil
DialOk(p) ==
    /\ alive /\ pc[p] = "retry"
    /\ ~HasConnection(p)
    /\ conns' = conns \cup {Dialed(p)}
    /\ clientConn' = [clientConn EXCEPT ![p] = Dialed(p)]
    /\ handlers' = handlers \cup {Dialed(p)}
    /\ dials' = [dials EXCEPT ![p] = dials[p] + 1]
    /\ pc' = [pc EXCEPT ![p] = "register"]
    /\ UNCHANGED << alive, attempt, clients, fails >>
    /\ DialFrame

\* no connection for the host; c.Dial() fails and attempts are left:
\* RetryOperation waits retryInterval
DialFail(p) ==
    /\ alive /\ pc[p] = "retry"
    /\ ~HasConnection(p)
    /\ attempt[p] < retries
    /\ dials' = [dials EXCEPT ![p] = dials[p] + 1]
    /\ fails' = [fails EXCEPT ![p] = fails[p] + 1]
    /\ pc' = [pc EXCEPT ![p] = "backoff"]
    /\ UNCHANGED << alive, conns, attempt, clientConn, clients, handlers >>
    /\ DialFrame

\* DialExhausted gone wrong: the error of RetryOperation is only logged, and
\* the task falls through to the store of its Client
DialExhaustedFallsThrough(p) ==
    /\ alive /\ pc[p] = "retry"
    /\ ~HasConnection(p)
    /\ attempt[p] = retries
    /\ dials' = [dials EXCEPT ![p] = dials[p] + 1]
    /\ fails' = [fails EXCEPT ![p] = fails[p] + 1]
    /\ clients' = Put(clients, Key(p), p)
    /\ pc' = [pc EXCEPT ![p] = "connected"]
    /\ UNCHANGED << alive, conns, attempt, clientConn, handlers >>
    /\ DialFrame

\* c.Dial() fails on the last attempt: RetryOperation returns the error and
\* qn.logger.Fatalf("Peer is not reachable or : %v", err) ends the process
DialExhausted(p) ==
    /\ alive /\ pc[p] = "retry"
    /\ ~HasConnection(p)
    /\ attempt[p] = retries
    /\ pc' = [pc EXCEPT ![p] = "exhausted"]
    /\ dials' = [dials EXCEPT ![p] = dials[p] + 1]
    /\ fails' = [fails EXCEPT ![p] = fails[p] + 1]
    /\ alive' = FALSE
    /\ UNCHANGED << conns, attempt, clientConn, clients, handlers >>
    /\ DialFrame

\* retryInterval has passed: the next attempt
BackoffElapsed(p) ==
    /\ alive /\ pc[p] = "backoff"
    /\ attempt' = [attempt EXCEPT ![p] = attempt[p] + 1]
    /\ pc' = [pc EXCEPT ![p] = "retry"]
    /\ UNCHANGED << alive, conns, clientConn, clients, handlers, dials, fails >>
    /\ DialFrame

\* qn.clients[peer.allowedIPs[0]] = c
Register(p) ==
    /\ alive /\ pc[p] = "register"
    /\ clients' = Put(clients, Key(p), p)
    /\ pc' = [pc EXCEPT ![p] = "connected"]
    /\ UNCHANGED << alive, conns, attempt, clientConn, handlers, dials, fails >>
    /\ DialFrame

(* -------------------------- forwarding loop ---------------------------- *)

\* what the forwarding loop leaves alone
FwdFrame ==
    UNCHANGED << conf, disableClient, disableServer, startPc, localIf, nat,
                 wgCount, serverPc, accepted, conns, connections, pc,
                 attempt, clientConn, clients, handlers, dials, fails, stopped >>

\* packet[i] (0-based, as in the Go code) of the BufSize-byte buffer
BufByte(i) == IF i < Len(packet) THEN packet[i + 1] ELSE 0

\* packet[lo:hi]
Slice(lo, hi) == [i \in 1..(hi - lo) |-> BufByte(lo + i - 1)]

\* the buffer after Read copied pkt to its front
AfterRead(pkt) ==
    [i \in 1..(IF Len(pkt) > Len(packet) THEN Len(pkt) ELSE Len(packet)) |->
        IF i <= Len(pkt) THEN pkt[i] ELSE packet[i]]

\* n, err := qn.localIf.Read(packet), err == nil
FwdRead(pkt) ==
    /\ alive /\ fwdPc = "read"
    /\ Len(pkt) <= BufSize
    /\ packet' = AfterRead(pkt)
    /\ n' = Len(pkt)
    /\ lastRead' = pkt
    /\ sent' = << >>
    /\ sendErr' = FALSE
    /\ fwdPc' = "lookup"
    /\ UNCHANGED alive
    /\ FwdFrame

\* Read fails: qn.logger.Fatalf ends the process (the panic after it is
\* never reached)
FwdReadFail ==
    /\ alive /\ fwdPc = "read"
    /\ fwdPc' = "readFailed"
    /\ alive' = FALSE
    /\ UNCHANGED << packet, n, lastRead, sent, sendErr >>
    /\ FwdFrame

\* DstKey gone wrong: the lookup key taken from the source address, packet[12:16]
SrcKey == IPString(Slice(SrcLo, DstLo))

\* dstIP := net.IP(packet[16:20]); the key looked up is dstIP.String()
DstKey == IPString(Slice(DstLo, DstHi))

\* Payload gone wrong: the whole buffer is sent, c.SendBytes(packet)
PayloadWholeBuffer == Slice(0, BufSize)

\* the bytes handed to SendBytes: packet[:n]
Payload == Slice(0, n)

\* c, ok := qn.clients[dstIP.String()], ok: err = c.SendBytes(packet[:n]); an
\* error of SendBytes is logged and the loop reads again
FwdSend(err) ==
    /\ alive /\ fwdPc = "lookup"
    /\ DstKey \in DOMAIN clients
    /\ sent' = Append(sent, [client |-> clients[DstKey],
                             conn   |-> clientConn[clients[DstKey]],
                             data   |-> Payload])
    /\ sendErr' = err
    /\ fwdPc' = "read"
    /\ UNCHANGED << alive, packet, n, lastRead >>
    /\ FwdFrame

\* FwdDrop gone wrong: the loop returns when no Client is found
FwdDropReturns ==
    /\ alive /\ fwdPc = "lookup"
    /\ DstKey \notin DOMAIN clients
    /\ fwdPc' = "stopped"
    /\ UNCHANGED << alive, packet, n, lastRead, sent, sendErr >>
    /\ FwdFrame

\* no Client under the key: the packet is logged and the loop reads again
FwdDrop ==
    /\ alive /\ fwdPc = "lookup"
    /\ DstKey \notin DOMAIN clients
    /\ fwdPc' = "read"
    /\ UNCHANGED << alive, packet, n, lastRead, sent, sendErr >>
    /\ FwdFrame

(* ----------------------- unsynchronised map access --------------------- *)

\* tasks about to read qn.clients
ClientsReaders == {p \in Peers : pc[p] = "check"} \cup (IF fwdPc = "lookup" THEN {"fwd"} ELSE {})

\* tasks about to write qn.clients
ClientsWriters == {p \in Peers : pc[p] = "register"}

\* two tasks at an access of qn.clients, one of them writing
ClientsRace ==
    \E w \in ClientsWriters : \E a \in ClientsReaders \cup ClientsWriters : a # w

\* the maps are plain Go maps used without a lock: when two accesses overlap
\* the runtime may detect it and throw "concurrent map read and map write" /
\* "concurrent map writes", which ends the process
ConcurrentMapFault ==
    /\ alive
    /\ ClientsRace
    /\ alive' = FALSE
    /\ UNCHANGED << conf, disableClient, disableServer, startPc, localIf,
                    nat, wgCount, serverPc, accepted, conns,
                    connections, pc, attempt, clientConn, clients, fwdPc, packet, n,
                    lastRead, sent, sendErr, handlers, dials, fails, stopped >>

(* --------------------------- specification ----------------------------- *)

\* a task's position is tested ahead of the choice of a session or a packet,
\* so that the hosts and the packets are only computed where the task stands
Next ==
    \/ ReadConfOk
    \/ ReadConfFail
    \/ CreateTunOk
    \/ CreateTunFail
    \/ FindPortSkip
    \/ FindPortSymmetric
    \/ FindPortBound
    \/ FindPortStunFail
    \/ SetupServer
    \/ SetupNoServer
    \/ WgWait
    \/ StartClients
    \/ EnableTrafficForwarding
    \/ ServerListenOk
    \/ ServerListenNoSignal
    \/ ServerListenFail
    \/ (serverPc = "accepting" /\ \E h \in RemoteHosts : ServerAccept(h))
    \/ \E p \in Peers : CheckClientsFound(p)
    \/ \E p \in Peers : CheckClientsMissing(p)
    \/ \E p \in Peers : RetryReuse(p)
    \/ \E p \in Peers : DialOk(p)
    \/ \E p \in Peers : DialFail(p)
    \/ \E p \in Peers : DialExhausted(p)
    \/ \E p \in Peers : BackoffElapsed(p)
    \/ \E p \in Peers : Register(p)
    \/ (fwdPc = "read" /\ \E pkt \in DevicePackets : FwdRead(pkt))
    \/ FwdReadFail
    \/ \E err \in BOOLEAN : FwdSend(err)
    \/ FwdDrop
    \/ ConcurrentMapFault

\* the runs in which the caller never calls Stop
Spec == Init /\ [][Next]_vars

\* the runs in which the caller may call Stop once Start has returned.  Stop
\* changes nothing the tasks read, so every task does in these runs what it
\* does in the runs of Spec
NextWithStop ==
    \/ Next
    \/ Stop

SpecWithStop == Init /\ [][NextWithStop]_vars

(* ------------------------------- claims -------------------------------- *)

\* C1: at most one Connection exists per distinct remote host, under any
\* interleaving of the dial tasks: two peers whose endpoints share a host never
\* both hold a Connection of their own to it.
C1_OneConnectionPerHost ==
    \A c1 \in conns : \A c2 \in conns : c1.host = c2.host => c1 = c2

\* C2: once a key has a Client in qn.clients, no setup task replaces that
\* entry or changes the Connection its Client wraps, also when two tasks for
\* the same key run concurrently.
C2_RegisteredClientKept ==
    [][\A k \in DOMAIN clients :
          /\ k \in DOMAIN clients'
          /\ clients'[k] = clients[k]
          /\ clientConn'[clients[k]] = clientConn[clients[k]]]_vars

\* C3: a peer whose dial failed on all `retries` attempts is Exhausted, its
\* Client is not in qn.clients, and the process is still alive.
C3_ExhaustedPeerLeavesProcessAlive ==
    \A p \in Peers :
        pc[p] = "exhausted" =>
            /\ alive
            /\ \A k \in DOMAIN clients : clients[k] # p

\* C4: with server and client mode enabled, after NAT classification reported
\* Symmetric the server task is not started.
C4_SymmetricNatStartsNoServer ==
    [][(nat = "symmetric" /\ ~disableServer /\ ~disableClient) => serverPc' = "none"]_vars

\* C5: a failure of NAT discovery (IsSymmetricNAT or GetPortBinding returning
\* an error) does not end the process.
C5_NatErrorsRecoverable ==
    nat = "stunFailed" => alive

\* C6: with server and client mode enabled, the wait in setupTunnel is released
\* by "listener is ready": once the server is accepting, setupTunnel is not
\* held back by the WaitGroup.
C6_WaitReleasedWhenListening ==
    (serverPc = "accepting" /\ ~disableClient) => wgCount = 0

\* peer p has its outcome: a Client under its key, or its retry budget used up
HasOutcome(p) == Key(p) \in DOMAIN clients \/ pc[p] = "exhausted"

\* C7: with client mode enabled no peer is left with neither outcome: when a
\* peer has reported its terminal dial failure, every dial task has begun its
\* attempts and no task can take a step any more, every peer has a registered
\* Client or a terminal dial failure.
C7_EveryPeerHasOutcome ==
    (/\ ~alive
     /\ ~disableClient
     /\ \E p \in Peers : pc[p] = "exhausted"
     /\ \A q \in Peers : attempt[q] >= 1)
        => \A q \in Peers : HasOutcome(q)

\* the destination address of a packet of at least DstHi bytes, as a key
PacketDst(pkt) == IPString(SubSeq(pkt, DstLo + 1, DstHi))

\* the lookup of the packet just read completes in this step
LookupDone == fwdPc = "lookup" /\ fwdPc' = "read"

\* C8: when the lookup of a packet whose destination is the key of a
\* registered Client completes, exactly one SendBytes call has been made for
\* it, over that Client, with exactly the bytes the Read returned.
C8_ByteExactForwarding ==
    [][(LookupDone /\ Len(lastRead) >= DstHi /\ PacketDst(lastRead) \in DOMAIN clients)
          => sent' = << [client |-> clients[PacketDst(lastRead)],
                         conn   |-> clientConn[clients[PacketDst(lastRead)]],
                         data   |-> lastRead] >>]_vars

\* C8 witness: a packet with a registered destination has been forwarded
C8_Witness ==
    /\ fwdPc = "read"
    /\ Len(lastRead) >= DstHi
    /\ Len(sent) = 1
    /\ sent[1].data = lastRead
    /\ sent[1].client = clients[PacketDst(lastRead)]

\* q is the only peer with its canonical address
OwnsKey(q) == \A r \in Peers : r # q => Key(r) # Key(q)

\* C9: a packet whose destination is the canonical address of peer q, which
\* no other peer shares, is sent only over q's Client and q's Connection, a
\* Connection to q's host.
C9_RoutingExclusive ==
    \A q \in Peers :
        (Len(lastRead) >= DstHi /\ Key(q) = PacketDst(lastRead) /\ OwnsKey(q)) =>
            \A i \in 1..Len(sent) :
                /\ sent[i].client = q
                /\ sent[i].conn = clientConn[q]
                /\ sent[i].conn.host = Host(q)

\* C9 witness: both peers registered under distinct keys, and the packet for
\* P2 has gone out over P2's Client
C9_Witness ==
    /\ OwnsKey("P2")
    /\ Key("P1") \in DOMAIN clients
    /\ Key("P2") \in DOMAIN clients
    /\ Len(lastRead) >= DstHi
    /\ PacketDst(lastRead) = Key("P2")
    /\ Len(sent) = 1
    /\ sent[1].client = "P2"

\* C10: when the lookup of a packet finds no Client, nothing is sent for it
\* and the loop is back at Read with the process alive; and a SendBytes call
\* is only ever made by the lookup that found a Client, with the packet just
\* read, so a dropped packet is not sent later.
C10_DropPolicy ==
    [][/\ (fwdPc = "lookup" /\ fwdPc' # fwdPc /\ Len(lastRead) >= DstHi
             /\ PacketDst(lastRead) \notin DOMAIN clients)
          => (sent' = << >> /\ fwdPc' = "read" /\ alive')
       /\ (sent' # sent /\ sent' # << >>)
          => (LookupDone /\ DstKey \in DOMAIN clients /\ sent'[Len(sent')].data = lastRead)]_vars

\* C10 witness: the packet just read was dropped, and the peer it was for has
\* registered since
C10_Witness ==
    /\ alive
    /\ fwdPc = "read"
    /\ Len(lastRead) >= DstHi
    /\ sent = << >>
    /\ PacketDst(lastRead) \in DOMAIN clients

\* the server task, a dial task or the forwarding task has been started
TasksStarted ==
    \/ serverPc # "none"
    \/ \E p \in Peers : pc[p] # "idle"
    \/ fwdPc # "none"

\* the part of Start that follows a successful createTunIface
PastCreateTun ==
    startPc \in {"findPort", "setupTunnel", "wait", "clients", "forwarding", "returned"}

\* C11: the virtual device is up exactly when Start has got past its one call
\* of createTunIface; every task that has been started was started with the
\* device up; and when Start has returned an error (config or device), no
\* task has been started.
C11_DeviceBeforeTasks ==
    /\ localIf <=> PastCreateTun
    /\ TasksStarted => localIf
    /\ startPc = "failed" => ~TasksStarted

\* C11 witness: the server, a dial task and the forwarding loop are all
\* running, on a device that is up
C11_Witness ==
    /\ localIf
    /\ serverPc = "accepting"
    /\ \E p \in Peers : pc[p] = "retry"
    /\ fwdPc = "read"

\* C12: no reachable state has two tasks (two dial tasks, or a dial task and
\* the forwarding loop) at an access of the clients map at the same time with
\* at least one of them writing.
C12_RegistryExclusive == ~ClientsRace

\* C13: when shutdown has been issued and a peer's dial task is waiting
\* between two attempts, that task makes no further attempt: it does not enter
\* the retried operation again, calls Dial no more and registers no Client.
C13_NoAttemptAfterShutdown ==
    [][\A p \in Peers :
          (stopped /\ pc[p] = "backoff") =>
              /\ pc'[p] \notin {"retry", "register", "connected"}
              /\ dials'[p] = dials[p]]_vars

\* C14: once Stop has returned, the server accept loop, every dial task and
\* the forwarding loop take no further step, the virtual device is closed and
\* the registry holds no entry.
C14_NoTaskStepAfterStop ==
    [][stopped =>
          /\ serverPc' = serverPc /\ accepted' = accepted
          /\ pc' = pc /\ dials' = dials
          /\ fwdPc' = fwdPc /\ sent' = sent
          /\ ~localIf'
          /\ clients' = EmptyMap /\ connections' = EmptyMap]_vars

\* peer p reaches Connected in this step, over a Connection it dialed itself
ConnectsByDial(p) ==
    /\ pc[p] = "register" /\ pc'[p] = "connected"
    /\ clientConn[p] = Dialed(p)

\* C15: when a peer reaches Connected through a fresh Dial, both maps have
\* been updated: connections[host] holds the dialed Connection and
\* clients[allowedIPs[0]] holds the peer's Client.
C15_DialRegistersBoth ==
    [][\A p \in Peers :
          ConnectsByDial(p) =>
              /\ Host(p) \in DOMAIN connections'
              /\ connections'[Host(p)] = Dialed(p)
              /\ Key(p) \in DOMAIN clients'
              /\ clients'[Key(p)] = p]_vars

\* C16: a peer whose Dial failed K times, K below the retry budget, and then
\* succeeded has made exactly K + 1 Dial calls when it reaches Connected, its
\* Client is then registered under its key, and from the successful Dial on
\* its task makes no further Dial call and no further backoff wait.
C16_RetryThenSuccess ==
    [][\A p \in Peers :
          /\ ConnectsByDial(p) =>
                /\ fails[p] < retries
                /\ dials[p] = fails[p] + 1
                /\ Key(p) \in DOMAIN clients' /\ clients'[Key(p)] = p
          /\ clientConn[p] = Dialed(p) =>
                /\ dials'[p] = dials[p]
                /\ pc'[p] \in {"register", "connected"}]_vars

\* C16 witness: a peer is Connected over the Connection its fourth Dial gave
\* it, after three failed ones
C16_Witness ==
    \E p \in Peers :
        /\ pc[p] = "connected"
        /\ clientConn[p] = Dialed(p)
        /\ fails[p] = 3
        /\ Key(p) \in DOMAIN clients

C18_IOErrorsRecoverable ==
    [][/\ (fwdPc = "lookup" /\ sendErr') => (alive' /\ fwdPc' = "read")
       /\ (fwdPc = "read" /\ fwdPc' = "readFailed") => alive']_vars

\* C19: every Client in the client table wraps a Connection, one that exists,
\* and no SendBytes call of the forwarding loop was made on a Client without
\* a Connection.
C19_ClientHasConnection ==
    /\ \A k \in DOMAIN clients :
          /\ clientConn[clients[k]] # NoConn
          /\ clientConn[clients[k]] \in conns
    /\ \A i \in 1..Len(sent) : sent[i].conn # NoConn

\* C19 witness: the forwarding loop has sent a packet over a registered
\* Client, while the other peer's Client, still dialing, has no Connection
C19_Witness ==
    /\ Len(sent) = 1
    /\ sent[1].client \in {clients[k] : k \in DOMAIN clients}
    /\ \E p \in Peers : pc[p] = "backoff" /\ clientConn[p] = NoConn

\* C20: the routing of a packet depends only on the bytes the current Read
\* returned: a packet shorter than DstHi bytes, which holds no destination
\* address, is sent to no peer.
C20_ShortPacketNotRouted ==
    [][(LookupDone /\ Len(lastRead) < DstHi) => sent' = << >>]_vars

====
